---- MODULE Spec2Model ----
(***************************************************************************)
(* Model of src/message/header.rs: the DNS header flags record and         *)
(* Flags::get_bits, which packs it into the 16-bit wire value.             *)
(*                                                                         *)
(* get_bits is modelled statement by statement: the accumulator `bits` is  *)
(* a u16, and `pc` names the source line that executes next.  The caller   *)
(* constructs a Flags value, may assign its fields (as the test does) and  *)
(* calls get_bits.                                                         *)
(***************************************************************************)
EXTENDS Integers, Sequences, FiniteSets

VARIABLES flags, pc, bits, result

vars == <<flags, pc, bits, result>>

----------------------------------------------------------------------------
(* u16 arithmetic *)

U16_BITS == 16

U16_MODULUS == 2 ^ U16_BITS

U16 == 0 .. (U16_MODULUS - 1)

\* bit i of x (bit 0 = least significant)
Bit(x, i) == (x \div (2 ^ i)) % 2

RECURSIVE BitOr(_, _)
\* a | b
BitOr(a, b) ==
    IF a = 0 THEN b
    ELSE IF b = 0 THEN a
    ELSE (IF (a % 2 = 1) \/ (b % 2 = 1) THEN 1 ELSE 0)
         + 2 * BitOr(a \div 2, b \div 2)

RECURSIVE BitAnd(_, _)
\* a & b
BitAnd(a, b) ==
    IF a = 0 \/ b = 0 THEN 0
    ELSE (IF (a % 2 = 1) /\ (b % 2 = 1) THEN 1 ELSE 0)
         + 2 * BitAnd(a \div 2, b \div 2)

\* x << n before the result is cut to 16 bits
ShlWide(x, n) == x * (2 ^ n)

\* x << n on u16: the bits shifted past bit 15 are dropped
Shl(x, n) == ShlWide(x, n) % U16_MODULUS

\* a shift by the type's width or more is an arithmetic overflow
\* (a panic in a build with overflow checks)
ShlPanics(n) == n >= U16_BITS

----------------------------------------------------------------------------
(* constants of header.rs *)

MESSAGE_TYPE_SHIFT == 15

\* mutants: the opcode field placed one bit low, one bit high, or at the top bit
OPCODE_SHIFT_low == 11 - 1

OPCODE_SHIFT_high == 11 + 1

OPCODE_SHIFT_top == 11 + 4

OPCODE_SHIFT == 11

\* mutant: the same shift as TRUNCATED_SHIFT
AUTHORITATIVE_SHIFT_dup == 10 - 1

AUTHORITATIVE_SHIFT == 10

TRUNCATED_SHIFT == 9

RECURSION_DESIRED_SHIFT == 8

\* mutant: off by one, into the reserved bits
RECURSION_AVAILABLE_SHIFT_reserved == 7 - 1

RECURSION_AVAILABLE_SHIFT == 7

\* mutant: 0b1111_1111_1000_0000, the mask also clears bits 3-0
Z_MASK_low_nibble == 65423 - 15

\* 0b1111_1111_1000_1111
Z_MASK == 65423

----------------------------------------------------------------------------
(* the enums and their `as u16` conversions *)

MessageType == {"Query", "Response"}

MessageTypeAsU16(m) ==
    CASE m = "Query" -> 0
      [] m = "Response" -> 1

Opcode == {"Query", "IQuery", "Status"}

OpcodeAsU16(o) ==
    CASE o = "Query" -> 0
      [] o = "IQuery" -> 1
      [] o = "Status" -> 2

ResponseCode == {"NoError", "FormErr", "ServFail", "NXDomain", "NotImp", "Refused"}

\* mutant: Refused numbered 6
ResponseCodeAsU16_refused6(r) ==
    CASE r = "NoError" -> 0
      [] r = "FormErr" -> 1
      [] r = "ServFail" -> 2
      [] r = "NXDomain" -> 3
      [] r = "NotImp" -> 4
      [] r = "Refused" -> 6

ResponseCodeAsU16(r) ==
    CASE r = "NoError" -> 0
      [] r = "FormErr" -> 1
      [] r = "ServFail" -> 2
      [] r = "NXDomain" -> 3
      [] r = "NotImp" -> 4
      [] r = "Refused" -> 5

\* struct Flags
Flags ==
    [message_type : MessageType,
     opcode : Opcode,
     authoritative : BOOLEAN,
     truncated : BOOLEAN,
     recursion_desired : BOOLEAN,
     recursion_available : BOOLEAN,
     response_code : ResponseCode]

----------------------------------------------------------------------------
(* the statements of Flags::get_bits, each as accumulator -> accumulator *)

\* bits |= (self.message_type as u16) << MESSAGE_TYPE_SHIFT;
MessageTypeBits(f) == Shl(MessageTypeAsU16(f.message_type), MESSAGE_TYPE_SHIFT)

OrMessageType(f, b) == BitOr(b, MessageTypeBits(f))

\* bits |= (self.opcode as u16) << OPCODE_SHIFT;
OpcodeBits(f) == Shl(OpcodeAsU16(f.opcode), OPCODE_SHIFT)

OrOpcode(f, b) == BitOr(b, OpcodeBits(f))

\* if self.authoritative { bits |= 1 << AUTHORITATIVE_SHIFT; }
AuthoritativeBits(f) == IF f.authoritative THEN Shl(1, AUTHORITATIVE_SHIFT) ELSE 0

OrAuthoritative(f, b) == IF f.authoritative THEN BitOr(b, AuthoritativeBits(f)) ELSE b

\* if self.truncated { bits |= 1 << TRUNCATED_SHIFT; }
TruncatedBits(f) == IF f.truncated THEN Shl(1, TRUNCATED_SHIFT) ELSE 0

\* mutant: the bit is set whatever the switch says
OrTruncated_always(f, b) == BitOr(b, Shl(1, TRUNCATED_SHIFT))

OrTruncated(f, b) == IF f.truncated THEN BitOr(b, TruncatedBits(f)) ELSE b

\* if self.recursion_desired { bits |= 1 << RECURSION_DESIRED_SHIFT; }
RecursionDesiredBits(f) ==
    IF f.recursion_desired THEN Shl(1, RECURSION_DESIRED_SHIFT) ELSE 0

OrRecursionDesired(f, b) ==
    IF f.recursion_desired THEN BitOr(b, RecursionDesiredBits(f)) ELSE b

\* if self.recursion_available { bits |= 1 << RECURSION_AVAILABLE_SHIFT; }
RecursionAvailableBits(f) ==
    IF f.recursion_available THEN Shl(1, RECURSION_AVAILABLE_SHIFT) ELSE 0

OrRecursionAvailable(f, b) ==
    IF f.recursion_available THEN BitOr(b, RecursionAvailableBits(f)) ELSE b

\* bits &= Z_MASK;
AndZMask(b) == BitAnd(b, Z_MASK)

\* mutant: the response code shifted into the reserved bits
ResponseCodeBits_shifted(f) == Shl(ResponseCodeAsU16(f.response_code), 4)

\* bits |= self.response_code as u16;
ResponseCodeBits(f) == ResponseCodeAsU16(f.response_code)

OrResponseCode(f, b) == BitOr(b, ResponseCodeBits(f))

\* the whole function, statements composed in source order
get_bits(f) ==
    OrResponseCode(f,
      AndZMask(
        OrRecursionAvailable(f,
          OrRecursionDesired(f,
            OrTruncated(f,
              OrAuthoritative(f,
                OrOpcode(f,
                  OrMessageType(f, 0))))))))

----------------------------------------------------------------------------
(* the state machine *)

\* a Flags value built by a struct literal; no call made yet
Init ==
    /\ flags \in Flags
    /\ pc = "caller"
    /\ bits = 0
    /\ result = <<>>

\* flags.get_bits() is entered: let mut bits = 0u16;
Call ==
    /\ pc = "caller"
    /\ pc' = "l72"
    /\ bits' = 0
    /\ result' = <<>>
    /\ UNCHANGED flags

Line72 ==
    /\ pc = "l72"
    /\ IF ShlPanics(MESSAGE_TYPE_SHIFT)
       THEN pc' = "panic" /\ UNCHANGED bits
       ELSE pc' = "l73" /\ bits' = OrMessageType(flags, bits)
    /\ UNCHANGED <<flags, result>>

Line73 ==
    /\ pc = "l73"
    /\ IF ShlPanics(OPCODE_SHIFT)
       THEN pc' = "panic" /\ UNCHANGED bits
       ELSE pc' = "l74" /\ bits' = OrOpcode(flags, bits)
    /\ UNCHANGED <<flags, result>>

Line74 ==
    /\ pc = "l74"
    /\ IF flags.authoritative /\ ShlPanics(AUTHORITATIVE_SHIFT)
       THEN pc' = "panic" /\ UNCHANGED bits
       ELSE pc' = "l77" /\ bits' = OrAuthoritative(flags, bits)
    /\ UNCHANGED <<flags, result>>

Line77 ==
    /\ pc = "l77"
    /\ IF flags.truncated /\ ShlPanics(TRUNCATED_SHIFT)
       THEN pc' = "panic" /\ UNCHANGED bits
       ELSE pc' = "l80" /\ bits' = OrTruncated(flags, bits)
    /\ UNCHANGED <<flags, result>>

Line80 ==
    /\ pc = "l80"
    /\ IF flags.recursion_desired /\ ShlPanics(RECURSION_DESIRED_SHIFT)
       THEN pc' = "panic" /\ UNCHANGED bits
       ELSE pc' = "l83" /\ bits' = OrRecursionDesired(flags, bits)
    /\ UNCHANGED <<flags, result>>

Line83 ==
    /\ pc = "l83"
    /\ IF flags.recursion_available /\ ShlPanics(RECURSION_AVAILABLE_SHIFT)
       THEN pc' = "panic" /\ UNCHANGED bits
       ELSE pc' = "l86" /\ bits' = OrRecursionAvailable(flags, bits)
    /\ UNCHANGED <<flags, result>>

Line86 ==
    /\ pc = "l86"
    /\ pc' = "l87"
    /\ bits' = AndZMask(bits)
    /\ UNCHANGED <<flags, result>>

Line87 ==
    /\ pc = "l87"
    /\ pc' = "l88"
    /\ bits' = OrResponseCode(flags, bits)
    /\ UNCHANGED <<flags, result>>

\* the tail expression `bits`: the accumulator is handed to the caller
Return ==
    /\ pc = "l88"
    /\ pc' = "caller"
    /\ result' = Append(result, bits)
    /\ bits' = 0
    /\ UNCHANGED flags

\* the caller assigns one field; a value returned earlier has been used by then
SetField(f) ==
    /\ pc = "caller"
    /\ f # flags
    /\ flags' = f
    /\ result' = <<>>
    /\ UNCHANGED <<pc, bits>>

SetMessageType == \E v \in MessageType : SetField([flags EXCEPT !.message_type = v])

SetOpcode == \E v \in Opcode : SetField([flags EXCEPT !.opcode = v])

SetAuthoritative == \E v \in BOOLEAN : SetField([flags EXCEPT !.authoritative = v])

SetTruncated == \E v \in BOOLEAN : SetField([flags EXCEPT !.truncated = v])

SetRecursionDesired == \E v \in BOOLEAN : SetField([flags EXCEPT !.recursion_desired = v])

SetRecursionAvailable ==
    \E v \in BOOLEAN : SetField([flags EXCEPT !.recursion_available = v])

SetResponseCode == \E v \in ResponseCode : SetField([flags EXCEPT !.response_code = v])

Next ==
    \/ Call
    \/ Line72
    \/ Line73
    \/ Line74
    \/ Line77
    \/ Line80
    \/ Line83
    \/ Line86
    \/ Line87
    \/ Return
    \/ SetMessageType
    \/ SetOpcode
    \/ SetAuthoritative
    \/ SetTruncated
    \/ SetRecursionDesired
    \/ SetRecursionAvailable
    \/ SetResponseCode

Spec == Init /\ [][Next]_vars

TypeOK ==
    /\ flags \in Flags
    /\ pc \in {"caller", "l72", "l73", "l74", "l77", "l80", "l83", "l86", "l87", "l88", "panic"}
    /\ bits \in U16
    /\ Len(result) <= 1

----------------------------------------------------------------------------
(* the test get_bits(): a struct literal, then one field assignment per step *)

TestFlags1 ==
    [message_type |-> "Query",
     opcode |-> "Query",
     authoritative |-> FALSE,
     truncated |-> FALSE,
     recursion_desired |-> FALSE,
     recursion_available |-> FALSE,
     response_code |-> "NoError"]

TestFlags2 == [TestFlags1 EXCEPT !.opcode = "IQuery"]

TestFlags3 == [TestFlags2 EXCEPT !.response_code = "Refused"]

TestFlags4 == [TestFlags3 EXCEPT !.authoritative = TRUE]

TestFlags5 == [TestFlags4 EXCEPT !.truncated = TRUE]

TestFlags6 == [TestFlags5 EXCEPT !.recursion_desired = TRUE]

TestFlags7 == [TestFlags6 EXCEPT !.recursion_available = TRUE]

TestFlags8 == [TestFlags7 EXCEPT !.message_type = "Response"]

TestFlags ==
    <<TestFlags1, TestFlags2, TestFlags3, TestFlags4,
      TestFlags5, TestFlags6, TestFlags7, TestFlags8>>

\* the right-hand sides of the assert_eq! lines, in order
TestExpected == <<0, 2048, 2053, 3077, 3589, 3845, 3973, 36741>>

----------------------------------------------------------------------------
(* vocabulary of the properties *)

\* a call has returned and its value is still in the caller's hands
Returned == pc = "caller" /\ result # <<>>

Value == result[1]

BitPositions == 0 .. (U16_BITS - 1)

SetBits(x) == {i \in BitPositions : Bit(x, i) = 1}

B2N(b) == IF b THEN 1 ELSE 0

\* the bit-position table of the layout, as arithmetic
TableValue(f) ==
    MessageTypeAsU16(f.message_type) * (2 ^ 15)
    + OpcodeAsU16(f.opcode) * (2 ^ 11)
    + B2N(f.authoritative) * (2 ^ 10)
    + B2N(f.truncated) * (2 ^ 9)
    + B2N(f.recursion_desired) * (2 ^ 8)
    + B2N(f.recursion_available) * (2 ^ 7)
    + ResponseCodeAsU16(f.response_code)

----------------------------------------------------------------------------
\* C1: every returned value equals the bit-position table's value for the
\* flags it was computed from, and the eight flags values of the test return
\* 0x0000, 0x0800, 0x0805, 0x0C05, 0x0E05, 0x0F05, 0x0F85, 0x8F85.
C1_TableValue ==
    Returned =>
        /\ Value = TableValue(flags)
        /\ \A i \in 1 .. 8 : flags = TestFlags[i] => Value = TestExpected[i]

C1_Witness == Returned /\ flags = TestFlags8 /\ Value = 36741

\* C2: bits 6, 5 and 4 of the returned value are 0, and they are 0 in the
\* accumulator once the response code has been OR'd in after the mask.
C2_ReservedZero ==
    /\ Returned => BitAnd(Value, 112) = 0 /\ SetBits(Value) \cap {4, 5, 6} = {}
    /\ pc = "l88" => BitAnd(bits, 112) = 0 /\ SetBits(bits) \cap {4, 5, 6} = {}

C2_Witness ==
    /\ pc = "l88"
    /\ flags.recursion_available
    /\ flags.response_code = "NXDomain"
    /\ {7, 1, 0} \subseteq SetBits(bits)

\* C3: the returned value is the value of no Flags value other than the one
\* it was computed from, and is the value of that one.
C3_Injective ==
    Returned =>
        \A g \in Flags :
            /\ g # flags => get_bits(g) # Value
            /\ g = flags => get_bits(g) = Value

C3_Witness ==
    /\ Returned
    /\ flags.opcode = "Status"
    /\ flags.authoritative
    /\ flags.response_code = "ServFail"

Flip(f, switch) == [f EXCEPT ![switch] = ~@]

SwitchBit(switch) ==
    CASE switch = "authoritative" -> 10
      [] switch = "truncated" -> 9
      [] switch = "recursion_desired" -> 8
      [] switch = "recursion_available" -> 7

Switches == {"authoritative", "truncated", "recursion_desired", "recursion_available"}

\* C4: flipping one boolean switch of the flags changes exactly that switch's
\* bit (10, 9, 8, 7) of the returned value and none of the other 15.
C4_OneBitPerSwitch ==
    Returned =>
        \A s \in Switches : \A i \in BitPositions :
            (Bit(get_bits(Flip(flags, s)), i) # Bit(Value, i)) <=> (i = SwitchBit(s))

C4_Witness ==
    /\ Returned
    /\ flags.authoritative
    /\ ~flags.truncated
    /\ flags.recursion_desired
    /\ ~flags.recursion_available
    /\ SetBits(Value) \cap {7, 8, 9, 10} = {8, 10}

\* C5: a Flags value that differs only in opcode agrees with the returned
\* value outside bits 14-11; one that differs only in response_code agrees
\* with it outside bits 3-0.
C5_FieldFrame ==
    Returned =>
        /\ \A o \in Opcode : \A i \in BitPositions \ (11 .. 14) :
               Bit(get_bits([flags EXCEPT !.opcode = o]), i) = Bit(Value, i)
        /\ \A r \in ResponseCode : \A i \in BitPositions \ (0 .. 3) :
               Bit(get_bits([flags EXCEPT !.response_code = r]), i) = Bit(Value, i)

C5_Witness ==
    /\ Returned
    /\ flags.opcode = "IQuery"
    /\ flags.response_code = "NotImp"
    /\ get_bits([flags EXCEPT !.opcode = "Status"]) # Value
    /\ get_bits([flags EXCEPT !.response_code = "Refused"]) # Value

InCall == pc \in {"l72", "l73", "l74", "l77", "l80", "l83", "l86", "l87", "l88"}

NextStatement ==
    Line72 \/ Line73 \/ Line74 \/ Line77 \/ Line80 \/ Line83 \/ Line86 \/ Line87 \/ Return

\* C6: a call never ends in an error and never gets stuck, it returns one
\* value in 0..65535, and no shift of the call loses a bit to the 16-bit width.
C6_Total ==
    /\ pc # "panic"
    /\ bits \in U16
    /\ Len(result) <= 1
    /\ Returned => Value \in U16
    /\ InCall =>
        /\ ENABLED NextStatement
        /\ ShlWide(MessageTypeAsU16(flags.message_type), MESSAGE_TYPE_SHIFT)
             = MessageTypeBits(flags)
        /\ ShlWide(OpcodeAsU16(flags.opcode), OPCODE_SHIFT) = OpcodeBits(flags)
        /\ flags.authoritative =>
             ShlWide(1, AUTHORITATIVE_SHIFT) = AuthoritativeBits(flags)
        /\ flags.truncated => ShlWide(1, TRUNCATED_SHIFT) = TruncatedBits(flags)
        /\ flags.recursion_desired =>
             ShlWide(1, RECURSION_DESIRED_SHIFT) = RecursionDesiredBits(flags)
        /\ flags.recursion_available =>
             ShlWide(1, RECURSION_AVAILABLE_SHIFT) = RecursionAvailableBits(flags)

C6_Witness ==
    /\ Returned
    /\ flags.message_type = "Response"
    /\ flags.opcode = "Status"
    /\ Value >= 32768 + 4096

\* the bit ranges of the fields: the shifts are the code's, the widths the layout's
MessageTypeRange == {MESSAGE_TYPE_SHIFT}

OpcodeRange == OPCODE_SHIFT .. (OPCODE_SHIFT + 3)

AuthoritativeRange == {AUTHORITATIVE_SHIFT}

TruncatedRange == {TRUNCATED_SHIFT}

RecursionDesiredRange == {RECURSION_DESIRED_SHIFT}

RecursionAvailableRange == {RECURSION_AVAILABLE_SHIFT}

ZRange == {i \in BitPositions : Bit(Z_MASK, i) = 0}

ResponseCodeRange == 0 .. 3

Ranges ==
    <<MessageTypeRange, OpcodeRange, AuthoritativeRange, TruncatedRange,
      RecursionDesiredRange, RecursionAvailableRange, ZRange, ResponseCodeRange>>

\* the ranges whose fields have been OR'd in when control is at a line
RangesDoneAt(line) ==
    CASE line = "l72" -> {}
      [] line = "l73" -> MessageTypeRange
      [] line = "l74" -> MessageTypeRange \cup OpcodeRange
      [] line = "l77" -> MessageTypeRange \cup OpcodeRange \cup AuthoritativeRange
      [] line = "l80" -> MessageTypeRange \cup OpcodeRange \cup AuthoritativeRange
                           \cup TruncatedRange
      [] line = "l83" -> MessageTypeRange \cup OpcodeRange \cup AuthoritativeRange
                           \cup TruncatedRange \cup RecursionDesiredRange
      [] line \in {"l86", "l87"} ->
                         MessageTypeRange \cup OpcodeRange \cup AuthoritativeRange
                           \cup TruncatedRange \cup RecursionDesiredRange
                           \cup RecursionAvailableRange
      [] line = "l88" -> BitPositions \ ZRange

\* C7: the fields' bit ranges and the mask's zero bits are pairwise disjoint
\* and together are exactly bits 0..15; every field's contribution, and so
\* the accumulator at every line, has set bits only inside the ranges of the
\* fields it comes from.
C7_Layout ==
    /\ \A i, j \in 1 .. 8 : i # j => Ranges[i] \cap Ranges[j] = {}
    /\ UNION {Ranges[i] : i \in 1 .. 8} = BitPositions
    /\ ZRange = 4 .. 6
    /\ SetBits(MessageTypeBits(flags)) \subseteq MessageTypeRange
    /\ SetBits(OpcodeBits(flags)) \subseteq OpcodeRange
    /\ SetBits(AuthoritativeBits(flags)) \subseteq AuthoritativeRange
    /\ SetBits(TruncatedBits(flags)) \subseteq TruncatedRange
    /\ SetBits(RecursionDesiredBits(flags)) \subseteq RecursionDesiredRange
    /\ SetBits(RecursionAvailableBits(flags)) \subseteq RecursionAvailableRange
    /\ SetBits(ResponseCodeBits(flags)) \subseteq ResponseCodeRange
    /\ InCall => SetBits(bits) \subseteq RangesDoneAt(pc)

C7_Witness ==
    /\ pc = "l88"
    /\ SetBits(bits) = {15, 12, 10, 9, 8, 7, 2, 0}

\* the other order: response_code OR'd in first, the mask applied last
get_bits_mask_last(f) ==
    AndZMask(
      OrResponseCode(f,
        OrRecursionAvailable(f,
          OrRecursionDesired(f,
            OrTruncated(f,
              OrAuthoritative(f,
                OrOpcode(f,
                  OrMessageType(f, 0))))))))

\* C8: the returned value (mask, then response_code) equals the value of the
\* order that ORs response_code in first and applies the mask last.
C8_MaskOrderIrrelevant == Returned => Value = get_bits_mask_last(flags)

C8_Witness ==
    /\ Returned
    /\ flags.response_code = "Refused"
    /\ flags.recursion_available
    /\ Value % 16 = 5

\* C9: when control reaches `bits &= Z_MASK` the accumulator has bits 6-0
\* all zero, and the statement leaves it as it was.
C9_MaskNoOp ==
    /\ pc = "l86" => bits % 128 = 0 /\ AndZMask(bits) = bits
    /\ pc = "l87" => SetBits(bits) \cap (0 .. 6) = {}

C9_Witness ==
    /\ pc = "l86"
    /\ SetBits(bits) = {15, 12, 10, 9, 8, 7}

\* C10: every returned value has bits 14, 13 and 3 equal to 0, never has
\* bits 2 and 1 both set, and is at most 0b1001_0111_1000_0101; the Flags
\* values have exactly 576 distinct encodings.
C10_ClosedEnumRange ==
    Returned =>
        /\ SetBits(Value) \cap {14, 13, 3} = {}
        /\ ~({2, 1} \subseteq SetBits(Value))
        /\ Value % 16 <= 5
        /\ Value <= 38789
        /\ Cardinality(Flags) = 576
        /\ Cardinality({get_bits(f) : f \in Flags}) = 576

C10_Witness == Returned /\ Value = 38789

====
